---- MODULE Spec2Model ----
(***************************************************************************)
(* RolloutStorage of pytorch-cpp-rl (src/src/storage.cpp): the trajectory  *)
(* buffer, its constructor and its operations insert, compute_returns and  *)
(* after_update, driven by an arbitrary caller.                            *)
(*                                                                         *)
(* A tensor is a record [shape, dtype, data]: data maps every index tuple  *)
(* of the shape (0-based, as in torch) to the element.  Elements are small *)
(* integers standing for the floats of the program; discount factors are   *)
(* exact rationals [num, den].                                             *)
(***************************************************************************)
EXTENDS Integers, Sequences, FiniteSets, TLC

\* ------------------------------------------------------------------ bounds
MaxSteps == 2
MaxProcesses == 2
MaxHidden == 1
MaxActions == 2
MaxBatch == 2
MaxEnvs == 2
MaxLogInterval == 2
MaxWindow == 2
MaxFrames == 5
\* rewards of the environment are multiples of 1 / RewardScale
RewardScale == 2

\* ---------------------------------------------------------- input domains
ObsShapes == {<<1>>, <<2, 1>>}
Fills == {0, 1}
Bases == {0, 1}
MaskVals == {0, 1}
Gammas == {[num |-> 6, den |-> 10], [num |-> 1, den |-> 1]}
Taus == {[num |-> 6, den |-> 10]}

ActionSpaces ==
    {[type |-> "Discrete", shape |-> <<3>>]}
        \cup {[type |-> "Box", shape |-> <<a>>] : a \in 1..MaxActions}

\* ----------------------------------------------------------------- tensors
RECURSIVE Indices(_)
Indices(shape) ==
    IF shape = <<>>
    THEN {<<>>}
    ELSE {<<k>> \o r : k \in 0..(shape[1] - 1), r \in Indices(Tail(shape))}

Filled(shape, v) ==
    [shape |-> shape, dtype |-> "Float", data |-> [ix \in Indices(shape) |-> v]]

zeros(shape) == Filled(shape, 0)

ones(shape) == Filled(shape, 1)

to(t, dtype) == [t EXCEPT !.dtype = dtype]

size(t, d) == t.shape[d + 1]

\* t[k]: the sub-tensor at index k of the first dimension
Select(t, k) ==
    [shape |-> Tail(t.shape), dtype |-> t.dtype,
     data |-> [ix \in Indices(Tail(t.shape)) |-> t.data[<<k>> \o ix]]]

\* a {n, 1} tensor holding vec[i] for process i (torch::from_blob of a vector)
from_blob(vec, n) ==
    [shape |-> <<n, 1>>, dtype |-> "Float",
     data |-> [ix \in Indices(<<n, 1>>) |-> vec[ix[1]]]]

AllNonzero(t) == \A ix \in DOMAIN t.data : t.data[ix] # 0

NoTensor == [shape |-> <<>>, dtype |-> "None", data |-> <<>>]

VARIABLES num_steps, step, observations, hidden_states, rewards,
          value_predictions, returns, action_log_probs, actions, masks,
          ctor, call, history

\* The record of one who compares calls of compute_returns: the latest two
\* calls, oldest first, each with its arguments, the rewards, masks and value
\* predictions the buffer held and the returns it held afterwards.
VARIABLES computed

\* The training program (example/gym_client.cpp, main): hp holds the
\* hyperparameters, pc the position in main, the rest main's locals, the
\* latest request and step response of the communicator, and the caller's
\* records: outstanding counts requests whose response was not read yet,
\* cycle_calls lists the collaborator and buffer calls of the current update
\* cycle, reports the cycles that ended with a report, inserts_total the
\* insert calls made so far, recent_totals the totals of the latest
\* reward_average_window_size completed episodes, oldest first.
VARIABLES hp, pc, env_info, act_result, running_rewards, episode_count,
          render, reward_history, returns_rms, env_returns, num_updates,
          update, loop_step, request, response, average_reward, outstanding,
          cycle_calls, reports, inserts_total, recent_totals

main_vars == <<hp, pc, env_info, act_result, running_rewards, episode_count,
               render, reward_history, returns_rms, env_returns, num_updates,
               update, loop_step, request, response, average_reward,
               outstanding, cycle_calls, reports, inserts_total,
               recent_totals>>

tensors == <<observations, hidden_states, rewards, value_predictions,
             returns, action_log_probs, actions, masks>>

tensors_set == {observations, hidden_states, rewards, value_predictions,
                returns, action_log_probs, actions, masks}

storage == <<num_steps, step, observations, hidden_states, rewards,
             value_predictions, returns, action_log_probs, actions, masks>>

vars == <<num_steps, step, observations, hidden_states, rewards,
          value_predictions, returns, action_log_probs, actions, masks,
          ctor, call, history, computed, main_vars>>

\* ------------------------------------------------------------ constructor
\* std::vector<long> observations_shape{num_steps + 1, num_processes} with
\* obs_shape appended
observations_shape(n_steps, num_processes, obs_shape) ==
    <<n_steps + 1, num_processes>> \o obs_shape

observations_init(n_steps, num_processes, obs_shape) ==
    zeros(observations_shape(n_steps, num_processes, obs_shape))

hidden_states_init(n_steps, num_processes, hidden_state_size) ==
    zeros(<<n_steps + 1, num_processes, hidden_state_size>>)

rewards_init_long(n_steps, num_processes) ==
    zeros(<<n_steps + 1, num_processes, 1>>)

rewards_init(n_steps, num_processes) ==
    zeros(<<n_steps, num_processes, 1>>)

value_predictions_init_short(n_steps, num_processes) ==
    zeros(<<n_steps, num_processes, 1>>)

value_predictions_init(n_steps, num_processes) ==
    zeros(<<n_steps + 1, num_processes, 1>>)

returns_init(n_steps, num_processes) ==
    zeros(<<n_steps + 1, num_processes, 1>>)

action_log_probs_init(n_steps, num_processes) ==
    zeros(<<n_steps, num_processes, 1>>)

num_actions(action_space) ==
    IF action_space.type = "Discrete" THEN 1 ELSE action_space.shape[1]

actions_init(n_steps, num_processes, action_space) ==
    LET a == zeros(<<n_steps, num_processes, num_actions(action_space)>>)
    IN  IF action_space.type = "Discrete" THEN to(a, "Long") ELSE a

masks_init_zeros(n_steps, num_processes) ==
    zeros(<<n_steps + 1, num_processes, 1>>)

masks_init(n_steps, num_processes) ==
    ones(<<n_steps + 1, num_processes, 1>>)

RolloutStorage(n_steps, num_processes, obs_shape, action_space, hidden_state_size) ==
    /\ num_steps = n_steps
    /\ step = 0
    /\ observations = observations_init(n_steps, num_processes, obs_shape)
    /\ hidden_states =
           hidden_states_init(n_steps, num_processes, hidden_state_size)
    /\ rewards = rewards_init(n_steps, num_processes)
    /\ value_predictions = value_predictions_init(n_steps, num_processes)
    /\ returns = returns_init(n_steps, num_processes)
    /\ action_log_probs = action_log_probs_init(n_steps, num_processes)
    /\ actions = actions_init(n_steps, num_processes, action_space)
    /\ masks = masks_init(n_steps, num_processes)
    /\ ctor = [num_steps |-> n_steps, num_processes |-> num_processes,
               obs_shape |-> obs_shape, action_space |-> action_space,
               hidden_state_size |-> hidden_state_size]
    /\ call = [op |-> "construct"]
    /\ history = [inserts |-> 0, observation |-> NoTensor,
                  hidden_state |-> NoTensor, reward |-> NoTensor,
                  mask |-> NoTensor]

\* the storage used on its own (the test cases): main is not running
NoMain ==
    /\ hp = "none"
    /\ pc = "none"
    /\ env_info = "none"
    /\ act_result = "none"
    /\ running_rewards = "none"
    /\ episode_count = "none"
    /\ render = "none"
    /\ reward_history = "none"
    /\ returns_rms = "none"
    /\ env_returns = "none"
    /\ num_updates = "none"
    /\ update = "none"
    /\ loop_step = "none"
    /\ request = "none"
    /\ response = "none"
    /\ average_reward = "none"
    /\ outstanding = "none"
    /\ cycle_calls = "none"
    /\ reports = "none"
    /\ inserts_total = "none"
    /\ recent_totals = "none"

Init ==
    /\ \E n_steps \in 1..MaxSteps, num_processes \in 1..MaxProcesses,
          obs_shape \in ObsShapes, action_space \in ActionSpaces,
          hidden_state_size \in 1..MaxHidden :
           RolloutStorage(n_steps, num_processes, obs_shape, action_space,
                          hidden_state_size)
    /\ computed = <<>>
    /\ NoMain

\* ------------------------------------------------------------- operations
\* The caller's record of a call: ctor holds the constructor's arguments,
\* call the latest call with its arguments and the cursor it found, history
\* the number of insert calls since construction or the last after_update
\* and the observation, hidden state, reward and mask passed to the latest
\* insert.

\* void RolloutStorage::after_update() {}
after_update ==
    /\ call' = [op |-> "after_update", after |-> call.op, step |-> step,
                inserts |-> history.inserts,
                observation |-> Select(observations, num_steps),
                hidden_state |-> Select(hidden_states, num_steps),
                mask |-> Select(masks, num_steps),
                raised |-> "none"]
    /\ history' = [history EXCEPT !.inserts = 0]
    /\ UNCHANGED <<storage, ctor>>

\* compute_returns that gives every process the bootstrap value of process 0
compute_returns_shared(next_value, use_gae, gamma, tau) ==
    /\ call' = [op |-> "compute_returns", after |-> call.op, step |-> step,
                inserts |-> history.inserts,
                next_value |-> next_value, use_gae |-> use_gae,
                gamma |-> gamma, tau |-> tau, raised |-> "none"]
    /\ returns' = [returns EXCEPT !.data =
                      [ix \in DOMAIN returns.data |->
                          IF ix[1] = num_steps
                          THEN next_value.data[<<0, 0>>]
                          ELSE returns.data[ix]]]
    /\ UNCHANGED <<num_steps, step, observations, hidden_states, rewards,
                   value_predictions, action_log_probs, actions, masks,
                   ctor, history>>

\* compute_returns that writes the bootstrap value with GAE only
compute_returns_gae_only(next_value, use_gae, gamma, tau) ==
    /\ call' = [op |-> "compute_returns", after |-> call.op, step |-> step,
                inserts |-> history.inserts,
                next_value |-> next_value, use_gae |-> use_gae,
                gamma |-> gamma, tau |-> tau, raised |-> "none"]
    /\ returns' = [returns EXCEPT !.data =
                      [ix \in DOMAIN returns.data |->
                          IF use_gae /\ ix[1] = num_steps
                          THEN next_value.data[<<ix[2], 0>>]
                          ELSE returns.data[ix]]]
    /\ UNCHANGED <<num_steps, step, observations, hidden_states, rewards,
                   value_predictions, action_log_probs, actions, masks,
                   ctor, history>>

\* void RolloutStorage::compute_returns(next_value, use_gae, gamma, tau) {}
compute_returns(next_value, use_gae, gamma, tau) ==
    /\ call' = [op |-> "compute_returns", after |-> call.op, step |-> step,
                inserts |-> history.inserts,
                next_value |-> next_value, use_gae |-> use_gae,
                gamma |-> gamma, tau |-> tau, raised |-> "none"]
    /\ UNCHANGED <<storage, ctor, history>>

\* insert that advances the cursor and nothing else
insert_advancing(observation, hidden_state, action, action_log_prob, value_prediction, reward, mask) ==
    /\ history.inserts <= num_steps
    /\ step' = step + 1
    /\ call' = [op |-> "insert", after |-> call.op, step |-> step,
                inserts |-> history.inserts,
                observation |-> observation, hidden_state |-> hidden_state,
                action |-> action, action_log_prob |-> action_log_prob,
                value_prediction |-> value_prediction, reward |-> reward,
                mask |-> mask, raised |-> "none"]
    /\ history' = [inserts |-> history.inserts + 1,
                   observation |-> observation,
                   hidden_state |-> hidden_state, reward |-> reward,
                   mask |-> mask]
    /\ UNCHANGED <<num_steps, tensors, ctor>>

\* void RolloutStorage::insert(observation, hidden_state, action,
\*                             action_log_prob, value_prediction, reward,
\*                             mask) {}
\* The caller makes at most num_steps + 1 calls between two rotations.
insert(observation, hidden_state, action, action_log_prob, value_prediction, reward, mask) ==
    /\ history.inserts <= num_steps
    /\ call' = [op |-> "insert", after |-> call.op, step |-> step,
                inserts |-> history.inserts,
                observation |-> observation, hidden_state |-> hidden_state,
                action |-> action, action_log_prob |-> action_log_prob,
                value_prediction |-> value_prediction, reward |-> reward,
                mask |-> mask, raised |-> "none"]
    /\ history' = [inserts |-> history.inserts + 1,
                   observation |-> observation,
                   hidden_state |-> hidden_state, reward |-> reward,
                   mask |-> mask]
    /\ UNCHANGED <<storage, ctor>>

\* ----------------------------------------------------------------- caller
\* Argument batches of the shapes the buffer was constructed with, after the
\* test cases: observation, hidden state, action and log-probability are
\* all zero (torch::zeros) or all nonzero (torch::rand + 1); value
\* predictions, rewards and bootstrap values are the vectors {b, b + 1, ...}
\* (value_preds and rewards of the compute_returns test); masks are any 0/1
\* vector.
Batch(shape, v) == Filled(<<ctor.num_processes>> \o shape, v)

Ramps ==
    {from_blob([i \in 0..(ctor.num_processes - 1) |-> b + i],
               ctor.num_processes) : b \in Bases}

Masks ==
    {from_blob(vec, ctor.num_processes) :
        vec \in [0..(ctor.num_processes - 1) -> MaskVals]}

Next ==
    \/ /\ \E v \in Fills, value_and_reward \in Ramps, mask \in Masks :
            insert(Batch(ctor.obs_shape, v),
                   Batch(<<ctor.hidden_state_size>>, v),
                   to(Batch(<<num_actions(ctor.action_space)>>, v),
                      actions.dtype),
                   Batch(<<1>>, v), value_and_reward, value_and_reward, mask)
       /\ UNCHANGED <<main_vars, computed>>
    \/ /\ \E next_value \in Ramps, use_gae \in BOOLEAN, gamma \in Gammas,
             tau \in Taus :
               compute_returns(next_value, use_gae, gamma, tau)
       /\ UNCHANGED <<main_vars, computed>>
    \/ /\ after_update
       /\ UNCHANGED <<main_vars, computed>>

Spec == Init /\ [][Next]_vars

\* ------------------------------------------------------ derived notions
Procs == 0..(ctor.num_processes - 1)

\* the element at index 0 of every dimension
First(t) == t.data[[k \in 1..Len(t.shape) |-> 0]]

AllEqual(t, v) == \A ix \in DOMAIN t.data : t.data[ix] = v

RECURSIVE Pow(_, _)
Pow(b, e) == IF e = 0 THEN 1 ELSE b * Pow(b, e - 1)

\* gamma.den^(T-t) times the discounted return of process i at time t:
\* R[T] = next_value, R[t] = rew[t] + gamma * msk[t+1] * R[t+1]
RECURSIVE ReturnScaled(_, _, _, _, _, _, _)
ReturnScaled(rew, msk, T, t, i, gamma, next_value) ==
    IF t = T
    THEN next_value.data[<<i, 0>>]
    ELSE rew.data[<<t, i, 0>>] * Pow(gamma.den, T - t)
             + gamma.num * msk.data[<<t + 1, i, 0>>]
                 * ReturnScaled(rew, msk, T, t + 1, i, gamma, next_value)

\* (gamma.den * tau.den)^(T-t) times the advantage gae of process i at time
\* t: gae[T] = 0, delta[t] = rew[t] + gamma * msk[t+1] * Vnext[t] - val[t],
\* gae[t] = delta[t] + gamma * tau * msk[t+1] * gae[t+1]
RECURSIVE GaeScaled(_, _, _, _, _, _, _, _, _)
GaeScaled(rew, msk, val, T, t, i, gamma, tau, next_value) ==
    IF t = T
    THEN 0
    ELSE LET D == gamma.den * tau.den
             vnext == IF t = T - 1 THEN next_value.data[<<i, 0>>]
                                   ELSE val.data[<<t + 1, i, 0>>]
         IN  (rew.data[<<t, i, 0>>] - val.data[<<t, i, 0>>]) * Pow(D, T - t)
                 + gamma.num * tau.den * msk.data[<<t + 1, i, 0>>] * vnext
                     * Pow(D, T - t - 1)
                 + gamma.num * tau.num * msk.data[<<t + 1, i, 0>>]
                     * GaeScaled(rew, msk, val, T, t + 1, i, gamma, tau,
                                 next_value)

\* ------------------------------------------------------------------ claims
\* C1: an insert made at cursor s < num_steps stores observation, hidden
\* state and mask at time index s+1, action, log-probability, value
\* prediction and reward at time index s, unmodified, and sets step to s+1.
C1_InsertStoresArguments ==
    (call.op = "insert" /\ call.step < num_steps) =>
        /\ Select(observations, call.step + 1) = call.observation
        /\ Select(hidden_states, call.step + 1) = call.hidden_state
        /\ Select(masks, call.step + 1) = call.mask
        /\ Select(actions, call.step) = call.action
        /\ Select(action_log_probs, call.step) = call.action_log_prob
        /\ Select(value_predictions, call.step) = call.value_prediction
        /\ Select(rewards, call.step) = call.reward
        /\ step = call.step + 1

\* C2: after compute_returns without GAE on a buffer filled by num_steps
\* inserts, returns[num_steps] is the bootstrap value and every earlier
\* returns[t][i] is rewards[t][i] + gamma * masks[t+1][i] * returns[t+1][i].
C2_DiscountedReturns ==
    (call.op = "compute_returns" /\ call.inserts = num_steps
        /\ ~call.use_gae) =>
        /\ Select(returns, num_steps) = call.next_value
        /\ \A t \in 0..(num_steps - 1), i \in Procs :
               returns.data[<<t, i, 0>>] * Pow(call.gamma.den, num_steps - t)
                   = ReturnScaled(rewards, masks, num_steps, t, i,
                                  call.gamma, call.next_value)

\* C3: after compute_returns with GAE on a buffer filled by num_steps
\* inserts, returns[num_steps] is the bootstrap value and every earlier
\* returns[t][i] is gae[t][i] + value_predictions[t][i], gae following the
\* backward recursion from gae = 0.
C3_GaeReturns ==
    (call.op = "compute_returns" /\ call.inserts = num_steps
        /\ call.use_gae) =>
        /\ Select(returns, num_steps) = call.next_value
        /\ \A t \in 0..(num_steps - 1), i \in Procs :
               (returns.data[<<t, i, 0>>] - value_predictions.data[<<t, i, 0>>])
                   * Pow(call.gamma.den * call.tau.den, num_steps - t)
                   = GaeScaled(rewards, masks, value_predictions, num_steps,
                               t, i, call.gamma, call.tau, call.next_value)

\* C4: after_update on a buffer filled by num_steps inserts leaves in slot 0
\* the observation, hidden state and mask that slot num_steps held, resets
\* step to 0, the insert that follows does not fail, and slot 0 holds the
\* observation, hidden state and mask of the latest insert.
C4_AfterUpdateRotates ==
    /\ (call.op = "after_update" /\ call.inserts = num_steps) =>
           /\ Select(observations, 0) = call.observation
           /\ Select(hidden_states, 0) = call.hidden_state
           /\ Select(masks, 0) = call.mask
           /\ step = 0
           /\ Select(observations, 0) = history.observation
           /\ Select(hidden_states, 0) = history.hidden_state
           /\ Select(masks, 0) = history.mask
    /\ (call.op = "insert" /\ call.after = "after_update") =>
           call.raised = "none"

\* C5: in every reachable state the cursor satisfies 0 <= step < num_steps.
C5_StepInRange == step \in 0..(num_steps - 1)

\* the buffer has received num_steps inserts since construction or rotation
C5_Filled == call.op = "insert" /\ history.inserts = num_steps

\* C6: an insert made after num_steps inserts since construction or the
\* last after_update fails with ShapeMismatch and does not advance step.
C6_InsertWhenFullFails ==
    (call.op = "insert" /\ call.inserts = num_steps) =>
        /\ call.raised = "ShapeMismatch"
        /\ step = call.step

\* C7: right after construction and right after every after_update,
\* masks[0] is 1 for every process.
C7_MasksStartAlive ==
    (call.op \in {"construct", "after_update"}) =>
        \A i \in Procs : masks.data[<<0, i, 0>>] = 1

\* a rotation of a filled buffer whose latest insert carried a done flag
C7_RotatedAfterDone ==
    /\ call.op = "after_update"
    /\ call.inserts = num_steps
    /\ history.mask # NoTensor
    /\ \E i \in Procs : history.mask.data[<<i, 0>>] = 0

TimeSlots(t) == size(t, 0)

ConstructedValues ==
    (call.op = "construct") =>
        /\ AllEqual(masks, 1)
        /\ \A t \in {observations, hidden_states, rewards, value_predictions,
                     returns, action_log_probs, actions} : AllEqual(t, 0)

\* C8 as stated: observations, hidden_states, masks and returns have
\* num_steps + 1 time slots, actions, action_log_probs, rewards and
\* value_predictions have num_steps, in every reachable state, and a
\* constructed buffer has masks all 1 and every other array all 0.
C8_ShapesAsStated ==
    /\ \A t \in {observations, hidden_states, masks, returns} :
           TimeSlots(t) = ctor.num_steps + 1
    /\ \A t \in {actions, action_log_probs, rewards, value_predictions} :
           TimeSlots(t) = ctor.num_steps
    /\ ConstructedValues

\* C8 amended: value_predictions has num_steps + 1 time slots like
\* observations, hidden_states, masks and returns; actions, action_log_probs
\* and rewards have num_steps; every array keeps the shape it was
\* constructed with, and a constructed buffer has masks all 1 and every
\* other array all 0.
C8_Shapes ==
    /\ observations.shape
           = <<ctor.num_steps + 1, ctor.num_processes>> \o ctor.obs_shape
    /\ hidden_states.shape
           = <<ctor.num_steps + 1, ctor.num_processes, ctor.hidden_state_size>>
    /\ \A t \in {masks, returns, value_predictions} :
           t.shape = <<ctor.num_steps + 1, ctor.num_processes, 1>>
    /\ \A t \in {action_log_probs, rewards} :
           t.shape = <<ctor.num_steps, ctor.num_processes, 1>>
    /\ TimeSlots(actions) = ctor.num_steps
    /\ size(actions, 1) = ctor.num_processes
    /\ Len(actions.shape) = 3
    /\ \A t \in tensors_set : DOMAIN t.data = Indices(t.shape)
    /\ ConstructedValues

\* a buffer with continuous actions that went through a whole cycle
C8_Cycled ==
    /\ ctor.action_space.type = "Box"
    /\ call.op = "after_update"
    /\ call.after = "compute_returns"
    /\ call.inserts = num_steps

\* C9: value_predictions has num_steps + 1 time slots, as observations,
\* hidden_states, returns and masks have; rewards, action_log_probs and
\* actions have num_steps.
C9_ValuePredictionSlots ==
    /\ TimeSlots(value_predictions) = num_steps + 1
    /\ \A t \in {observations, hidden_states, returns, masks} :
           TimeSlots(t) = TimeSlots(value_predictions)
    /\ \A t \in {rewards, action_log_probs, actions} :
           TimeSlots(t) = num_steps

\* a buffer just constructed with the largest number of steps
C9_Constructed == call.op = "construct" /\ num_steps = MaxSteps

\* C10: after one insert of all-nonzero arguments into a freshly constructed
\* buffer, the first element at time index 0 of observations, hidden_states,
\* actions, action_log_probs, value_predictions, rewards and masks is
\* nonzero.
C10_FirstInsertNonzero ==
    (/\ call.op = "insert"
     /\ call.after = "construct"
     /\ \A a \in {call.observation, call.hidden_state, call.action,
                  call.action_log_prob, call.value_prediction, call.reward,
                  call.mask} : AllNonzero(a)) =>
        \A t \in {observations, hidden_states, actions, action_log_probs,
                  value_predictions, rewards, masks} : First(t) # 0

\* ============================================================ gym_client
\* Program constants of example/gym_client.cpp.  Rewards are integers in
\* units of 1 / RewardScale; discount factors are exact rationals.
discount_factor == [num |-> 99, den |-> 100]

gae == [num |-> 9, den |-> 10]

use_gae == TRUE

reward_clip_value == 100

\* ---------------------------------------------------------- input domains
\* what the environment answers to info
EnvInfos ==
    {[action_space |-> [type |-> "Discrete", shape |-> <<3>>],
      observation_space_shape |-> <<1>>],
     [action_space |-> [type |-> "Box", shape |-> <<MaxActions>>],
      observation_space_shape |-> <<2, 1>>]}

\* real rewards of one step, and what the reward field adds to them
RealRewards == {1}
RewardOffsets == {0, 1}
RenderThresholds == {1}

Envs == 0..(hp.num_envs - 1)

\* ------------------------------------------------------------ collaborators
\* Tensor::copy_ into index k of the first dimension
copy_(t, k, src) ==
    [t EXCEPT !.data = [ix \in DOMAIN t.data |->
                           IF ix[1] = k THEN src.data[Tail(ix)] ELSE t.data[ix]]]

\* RolloutStorage::set_first_observation
set_first_observation(obs, observation) == copy_(obs, 0, observation)

\* Policy::act: value, action, log-probability, hidden state
PolicyActs ==
    {[value |-> Filled(<<hp.num_envs, 1>>, 1),
      action |-> to(Filled(<<hp.num_envs, num_actions(env_info.action_space)>>, 1), actions.dtype),
      log_prob |-> Filled(<<hp.num_envs, 1>>, 1),
      hidden_state |-> Filled(<<hp.num_envs, hp.hidden_size>>, 1)]}

\* Policy::get_values
PolicyValues == {Filled(<<hp.num_envs, 1>>, 1)}

\* RunningMeanStd(1) and RunningMeanStd::update of a batch of n samples
RunningMeanStd == [count |-> 0]

rms_update(rms, n) == [rms EXCEPT !.count = @ + n]

\* clamp(raw / sqrt(variance + 1e-8), -clip, clip): a float expression of
\* the raw reward and the variance held by rms, kept as a term
Normalize(raw, rms) ==
    [raw |-> raw, variance_of |-> rms, clip |-> reward_clip_value]

\* ------------------------------------------------------------------- main
\* int num_updates = max_frames / (batch_size * num_envs)
NumUpdates == hp.max_frames \div (hp.batch_size * hp.num_envs)

\* for (...; update <= num_updates; ...)
training_inclusive(u) == u <= num_updates

\* for (...; update < num_updates; ...)
training(u) == u < num_updates

\* for (...; step <= batch_size; ...)
collecting_inclusive(s) == s <= hp.batch_size

\* for (...; step < batch_size; ...)
collecting(s) == s < hp.batch_size

\* if (update % log_interval == 0)
should_report_always(u) == u % hp.log_interval = 0

\* if (update % log_interval == 0 && update > 0)
should_report(u) == u % hp.log_interval = 0 /\ u > 0

\* float to int conversion: truncation toward zero of n / d
Trunc(n, d) == IF n >= 0 THEN n \div d ELSE -((-n) \div d)

\* std::accumulate(reward_history.begin(), reward_history.end(), 0): the
\* initial value 0 is an int, so the running sum is an int and every
\* addition of a float is converted back to int
RECURSIVE accumulate(_, _, _)
accumulate(hist, j, acc) ==
    IF j = hp.reward_average_window_size
    THEN acc
    ELSE accumulate(hist, j + 1, Trunc(acc * RewardScale + hist[j], RewardScale))

\* average_reward /= episode_count < window ? episode_count : window; the
\* float is kept as the pair sum / n (n = 0: NaN or an infinity)
Divisor ==
    IF episode_count < hp.reward_average_window_size
    THEN episode_count
    ELSE hp.reward_average_window_size

\* average_reward >= render_reward_threshold on floats
Geq(avg, threshold) ==
    IF avg.n = 0 THEN avg.sum > 0 ELSE avg.sum >= threshold * avg.n

\* returns[i] = 0 and running_rewards[i] = 0 without the test of the flag
when_done_always(done, zero, value) == zero

\* if (dones_vec[i][0]) { ... = 0 }
when_done(done, zero, value) == IF done THEN zero ELSE value

\* for (int i = 0; i < num_envs; ++i) { running_rewards[i] += ...; if
\* (dones_vec[i][0]) {...} }: st holds running_rewards, reward_history,
\* returns, episode_count (and the caller's recent_totals)
RECURSIVE track(_, _, _, _)
track(i, st, real_rewards, dones_vec) ==
    IF i = hp.num_envs
    THEN st
    ELSE LET total == st.running_rewards[i] + real_rewards[i]
             W == hp.reward_average_window_size
             done == dones_vec[i]
             next ==
                 [running_rewards |->
                      [st.running_rewards EXCEPT ![i] = when_done(done, 0, total)],
                  returns |->
                      [st.returns EXCEPT ![i] = when_done(done, <<>>, @)],
                  reward_history |->
                      IF done
                      THEN [st.reward_history EXCEPT ![st.episode_count % W] = total]
                      ELSE st.reward_history,
                  episode_count |->
                      IF done THEN st.episode_count + 1 ELSE st.episode_count,
                  recent_totals |->
                      IF ~done
                      THEN st.recent_totals
                      ELSE IF Len(st.recent_totals) < W
                      THEN Append(st.recent_totals, total)
                      ELSE Append(Tail(st.recent_totals), total)]
         IN  track(i + 1, next, real_rewards, dones_vec)

\* a local that was not assigned yet
NoRecord == [name |-> "none"]

NoStorage ==
    /\ num_steps = 0
    /\ step = 0
    /\ observations = NoTensor
    /\ hidden_states = NoTensor
    /\ rewards = NoTensor
    /\ value_predictions = NoTensor
    /\ returns = NoTensor
    /\ action_log_probs = NoTensor
    /\ actions = NoTensor
    /\ masks = NoTensor
    /\ ctor = NoRecord
    /\ call = [op |-> "none"]
    /\ history = [inserts |-> 0, observation |-> NoTensor,
                  hidden_state |-> NoTensor, reward |-> NoTensor,
                  mask |-> NoTensor]

\* the hyperparameters and the locals main declares before its first request
InitMain ==
    /\ NoStorage
    /\ computed = <<>>
    /\ \E batch_size \in 1..MaxBatch, num_envs \in 1..MaxEnvs,
          log_interval \in 1..MaxLogInterval,
          reward_average_window_size \in 1..MaxWindow,
          max_frames \in (MaxFrames - 1)..MaxFrames,
          hidden_size \in {MaxHidden},
          render_reward_threshold \in RenderThresholds :
           hp = [batch_size |-> batch_size, num_envs |-> num_envs,
                 log_interval |-> log_interval,
                 reward_average_window_size |-> reward_average_window_size,
                 max_frames |-> max_frames, hidden_size |-> hidden_size,
                 render_reward_threshold |-> render_reward_threshold]
    /\ pc = "make_request"
    /\ env_info = NoRecord
    /\ act_result = NoRecord
    /\ running_rewards = <<>>
    /\ episode_count = 0
    /\ render = FALSE
    /\ reward_history = <<>>
    /\ returns_rms = NoRecord
    /\ env_returns = <<>>
    /\ num_updates = 0
    /\ update = 0
    /\ loop_step = 0
    /\ request = NoRecord
    /\ response = NoRecord
    /\ average_reward = NoRecord
    /\ outstanding = 0
    /\ cycle_calls = <<>>
    /\ reports = {}
    /\ inserts_total = 0
    /\ recent_totals = <<>>

locals == <<act_result, running_rewards, episode_count, render,
            reward_history, returns_rms, env_returns, num_updates, update,
            loop_step, average_reward, reports, inserts_total, recent_totals>>

storage_and_records == <<storage, ctor, call, history, computed>>

\* ------------------------------------------------------------ environment
\* communicator.send_request(...): lines 82-86
make_request ==
    /\ pc = "make_request"
    /\ request' = [name |-> "make", num_envs |-> hp.num_envs]
    /\ outstanding' = outstanding + 1
    /\ pc' = "make_response"
    /\ UNCHANGED <<hp, env_info, response, cycle_calls, locals,
                   storage_and_records>>

\* communicator.get_response<MakeResponse>(): line 87
make_response ==
    /\ pc = "make_response"
    /\ outstanding' = outstanding - 1
    /\ response' = [name |-> "make"]
    /\ pc' = "info_request"
    /\ UNCHANGED <<hp, env_info, request, cycle_calls, locals,
                   storage_and_records>>

\* lines 89-90
info_request ==
    /\ pc = "info_request"
    /\ request' = [name |-> "info"]
    /\ outstanding' = outstanding + 1
    /\ pc' = "info_response"
    /\ UNCHANGED <<hp, env_info, response, cycle_calls, locals,
                   storage_and_records>>

\* the info response is never read: pc moves on with the request pending
info_response_unread ==
    /\ pc = "info_response"
    /\ \E info \in EnvInfos : env_info' = info
    /\ pc' = "reset_request"
    /\ UNCHANGED <<hp, request, response, outstanding, cycle_calls, locals,
                   storage_and_records>>

\* lines 91-95
info_response ==
    /\ pc = "info_response"
    /\ outstanding' = outstanding - 1
    /\ \E info \in EnvInfos : env_info' = info
    /\ response' = [name |-> "info"]
    /\ pc' = "reset_request"
    /\ UNCHANGED <<hp, request, cycle_calls, locals, storage_and_records>>

\* lines 97-100
reset_request ==
    /\ pc = "reset_request"
    /\ request' = [name |-> "reset"]
    /\ outstanding' = outstanding + 1
    /\ pc' = "reset_response"
    /\ UNCHANGED <<hp, env_info, response, cycle_calls, locals,
                   storage_and_records>>

\* RolloutStorage storage(batch_size, num_envs, observation_space_shape,
\* space, hidden_size, device) followed by set_first_observation
construct_storage(n_steps, num_processes, obs_shape, action_space, hidden_state_size, observation) ==
    /\ num_steps' = n_steps
    /\ step' = 0
    /\ observations' =
           set_first_observation(
               observations_init(n_steps, num_processes, obs_shape),
               observation)
    /\ hidden_states' =
           hidden_states_init(n_steps, num_processes, hidden_state_size)
    /\ rewards' = rewards_init(n_steps, num_processes)
    /\ value_predictions' = value_predictions_init(n_steps, num_processes)
    /\ returns' = returns_init(n_steps, num_processes)
    /\ action_log_probs' = action_log_probs_init(n_steps, num_processes)
    /\ actions' = actions_init(n_steps, num_processes, action_space)
    /\ masks' = masks_init(n_steps, num_processes)
    /\ ctor' = [num_steps |-> n_steps, num_processes |-> num_processes,
                obs_shape |-> obs_shape, action_space |-> action_space,
                hidden_state_size |-> hidden_state_size]
    /\ call' = [op |-> "construct"]
    /\ history' = [inserts |-> 0, observation |-> NoTensor,
                   hidden_state |-> NoTensor, reward |-> NoTensor,
                   mask |-> NoTensor]

\* lines 102-173: the reset response is read, policy, storage and algorithm
\* are built, the locals of the loop are initialised, the loop is entered
reset_response ==
    /\ pc = "reset_response"
    /\ outstanding' = outstanding - 1
    /\ response' = [name |-> "reset"]
    /\ construct_storage(hp.batch_size, hp.num_envs,
                         env_info.observation_space_shape,
                         env_info.action_space, hp.hidden_size,
                         Filled(<<hp.num_envs>> \o env_info.observation_space_shape, 1))
    /\ running_rewards' = [i \in Envs |-> 0]
    /\ episode_count' = 0
    /\ render' = FALSE
    /\ reward_history' = [j \in 0..(hp.reward_average_window_size - 1) |-> 0]
    /\ returns_rms' = RunningMeanStd
    /\ env_returns' = [i \in Envs |-> <<>>]
    /\ num_updates' = NumUpdates
    /\ update' = 0
    /\ loop_step' = 0
    /\ pc' = IF training(0)' THEN "act" ELSE "done"
    /\ UNCHANGED <<hp, env_info, request, act_result, average_reward,
                   cycle_calls, reports, inserts_total, recent_totals,
                   computed>>

\* ----------------------------------------------------------------- cycle
\* lines 177-200: policy->act on slot step of the storage
act ==
    /\ pc = "act"
    /\ \E result \in PolicyActs : act_result' = result
    /\ cycle_calls' = (IF loop_step = 0 THEN <<>> ELSE cycle_calls)
                          \o <<[op |-> "act", slot |-> loop_step]>>
    /\ pc' = "step_request"
    /\ UNCHANGED <<hp, env_info, request, response, outstanding,
                   running_rewards, episode_count, render, reward_history,
                   returns_rms, env_returns, num_updates, update, loop_step,
                   average_reward, reports, inserts_total, recent_totals,
                   storage_and_records>>

\* lines 184-200: one scalar per environment for Discrete, shape[0] scalars
\* for the other action spaces
step_actions ==
    [i \in Envs |->
        [j \in 0..(num_actions(env_info.action_space) - 1) |->
            act_result.action.data[<<i, j>>]]]

\* lines 202-206
step_request ==
    /\ pc = "step_request"
    /\ request' = [name |-> "step", actions |-> step_actions,
                   render |-> render]
    /\ outstanding' = outstanding + 1
    /\ cycle_calls' = Append(cycle_calls, [op |-> "step"])
    /\ pc' = "step_response"
    /\ UNCHANGED <<hp, env_info, response, locals, storage_and_records>>

\* lines 207-264: the step response is read, the reward normalised, the
\* episodes tracked and the transition inserted
step_response ==
    /\ pc = "step_response"
    /\ outstanding' = outstanding - 1
    /\ \E real_reward \in [Envs -> RealRewards], offset \in RewardOffsets,
          done \in [Envs -> BOOLEAN] :
        LET observation ==
                Filled(<<hp.num_envs>> \o env_info.observation_space_shape, 1)
            raw_reward_vec == real_reward
            discounted == [i \in Envs |-> Append(env_returns[i], raw_reward_vec[i])]
            rms == rms_update(returns_rms, hp.num_envs)
            reward_vec == [i \in Envs |-> Normalize(raw_reward_vec[i], rms)]
            tracked ==
                track(0, [running_rewards |-> running_rewards,
                          returns |-> discounted,
                          reward_history |-> reward_history,
                          episode_count |-> episode_count,
                          recent_totals |-> recent_totals],
                      real_reward, done)
            dones == from_blob([i \in Envs |-> IF done[i] THEN 1 ELSE 0], hp.num_envs)
            mask == [dones EXCEPT !.data = [ix \in DOMAIN dones.data |-> 1 - dones.data[ix]]]
        IN  /\ response' = [name |-> "step",
                            reward |-> [i \in Envs |-> real_reward[i] + offset],
                            real_reward |-> real_reward, done |-> done]
            /\ returns_rms' = rms
            /\ running_rewards' = tracked.running_rewards
            /\ env_returns' = tracked.returns
            /\ reward_history' = tracked.reward_history
            /\ episode_count' = tracked.episode_count
            /\ recent_totals' = tracked.recent_totals
            /\ insert(observation, act_result.hidden_state, act_result.action,
                      act_result.log_prob, act_result.value,
                      from_blob(reward_vec, hp.num_envs), mask)
    /\ inserts_total' = inserts_total + 1
    /\ cycle_calls' = Append(cycle_calls, [op |-> "insert"])
    /\ loop_step' = loop_step + 1
    /\ pc' = IF collecting(loop_step + 1) THEN "act" ELSE "bootstrap"
    /\ UNCHANGED <<hp, env_info, request, act_result, render, num_updates,
                   update, average_reward, reports, computed>>

\* lines 266-275: policy->get_values on the last slot, compute_returns
bootstrap ==
    /\ pc = "bootstrap"
    /\ \E next_value \in PolicyValues :
           compute_returns(next_value, use_gae, discount_factor, gae)
    /\ cycle_calls' = cycle_calls
           \o <<[op |-> "get_values", slot |-> size(observations, 0) - 1],
                [op |-> "compute_returns", inserts |-> history.inserts]>>
    /\ pc' = "update"
    /\ UNCHANGED <<hp, env_info, request, response, outstanding, locals,
                   computed>>

\* lines 277-286: algo->update(storage, decay_level)
algo_update ==
    /\ pc = "update"
    /\ cycle_calls' = Append(cycle_calls, [op |-> "update", inserts |-> history.inserts])
    /\ pc' = "after_update"
    /\ UNCHANGED <<hp, env_info, request, response, outstanding, locals,
                   storage_and_records>>

\* line 287
rotate ==
    /\ pc = "after_update"
    /\ after_update
    /\ cycle_calls' = Append(cycle_calls, [op |-> "after_update"])
    /\ pc' = "report"
    /\ UNCHANGED <<hp, env_info, request, response, outstanding, locals,
                   computed>>

\* lines 289-308 and the header of the outer loop
report ==
    /\ pc = "report"
    /\ IF should_report(update)
       THEN LET average == [name |-> "average_reward",
                            sum |-> accumulate(reward_history, 0, 0),
                            n |-> Divisor]
            IN  /\ average_reward' = average
                /\ render' = Geq(average, hp.render_reward_threshold)
                /\ reports' = reports \cup {update}
                /\ cycle_calls' = Append(cycle_calls, [op |-> "report"])
       ELSE UNCHANGED <<average_reward, render, reports, cycle_calls>>
    /\ update' = update + 1
    /\ loop_step' = 0
    /\ pc' = IF training(update + 1) THEN "act" ELSE "done"
    /\ UNCHANGED <<hp, env_info, request, response, outstanding, act_result,
                   running_rewards, episode_count, reward_history,
                   returns_rms, env_returns, num_updates, inserts_total,
                   recent_totals, storage_and_records>>

NextMain ==
    \/ make_request
    \/ make_response
    \/ info_request
    \/ info_response
    \/ reset_request
    \/ reset_response
    \/ act
    \/ step_request
    \/ step_response
    \/ bootstrap
    \/ algo_update
    \/ rotate
    \/ report

SpecMain == InitMain /\ [][NextMain]_vars

\* main is one thread that runs whenever it can
FairSpecMain == SpecMain /\ WF_vars(NextMain)

\* ------------------------------------------------------ derived notions
RECURSIVE SumSeq(_)
SumSeq(q) == IF q = <<>> THEN 0 ELSE Head(q) + SumSeq(Tail(q))

Min(a, b) == IF a < b THEN a ELSE b

IsPrefix(q, r) == Len(q) <= Len(r) /\ SubSeq(r, 1, Len(q)) = q

LastCall == IF cycle_calls = <<>> THEN "none" ELSE cycle_calls[Len(cycle_calls)].op

\* the calls of the collection steps t, t + 1, ..., T - 1
RECURSIVE CollectCalls(_, _)
CollectCalls(t, T) ==
    IF t = T
    THEN <<>>
    ELSE <<[op |-> "act", slot |-> t], [op |-> "step"], [op |-> "insert"]>>
             \o CollectCalls(t + 1, T)

\* the calls of one whole update cycle that ends with a report
CycleCalls(T) ==
    CollectCalls(0, T)
        \o <<[op |-> "get_values", slot |-> T],
             [op |-> "compute_returns", inserts |-> T],
             [op |-> "update", inserts |-> T],
             [op |-> "after_update"],
             [op |-> "report"]>>

\* ------------------------------------------------------------------ claims
\* C11: every completed episode's total is written at position
\* (episode_count mod window) and counted, and the average reported is the
\* sum of the min(episode_count, window) latest episode totals divided by
\* min(episode_count, window).
C11_WindowAverage ==
    /\ (recent_totals # <<>>) =>
           /\ Len(recent_totals)
                  = Min(episode_count, hp.reward_average_window_size)
           /\ reward_history[(episode_count - 1) % hp.reward_average_window_size]
                  = recent_totals[Len(recent_totals)]
    /\ (LastCall = "report" /\ episode_count > 0) =>
           /\ average_reward.n
                  = Min(episode_count, hp.reward_average_window_size)
           /\ average_reward.sum * RewardScale = SumSeq(recent_totals)

\* C12: no report divides by zero: whenever an average was computed, its
\* divisor was not 0.
C12_NoDivisionByZero == (average_reward # NoRecord) => average_reward.n # 0

\* C13: the calls of every update cycle are batch_size times (act on slot
\* step, environment step, insert), get_values on slot batch_size,
\* compute_returns, update, after_update and possibly a report, in this
\* order; compute_returns, update and after_update find exactly batch_size
\* inserts since the last rotation.
C13_CycleOrder ==
    /\ IsPrefix(cycle_calls, CycleCalls(hp.batch_size))
    /\ (call.op \in {"compute_returns", "after_update"}) =>
           call.inserts = hp.batch_size
    /\ (pc \in {"update", "after_update"}) => history.inserts = hp.batch_size

\* a whole cycle of the longest rollout, report included
C13_WholeCycle ==
    /\ hp.batch_size = MaxBatch
    /\ cycle_calls = CycleCalls(MaxBatch)

\* C14: main reaches its end, having made exactly max_frames / (batch_size *
\* num_envs) update cycles and batch_size inserts in each.
C14_Terminates ==
    <>(/\ pc = "done"
       /\ update = hp.max_frames \div (hp.batch_size * hp.num_envs)
       /\ inserts_total = update * hp.batch_size)

\* main ended after several cycles
C14_Done == pc = "done" /\ update >= 2 /\ inserts_total >= 2

\* C15: the cycles that ended with a report are exactly the cycles c > 0
\* with c mod log_interval = 0; render is false before the first report and
\* afterwards is the verdict (average >= threshold) of the latest report,
\* and every step request carries it.
C15_ReportAndRender ==
    /\ reports = {c \in 0..(update - 1) : c > 0 /\ c % hp.log_interval = 0}
    /\ (reports = {}) => (average_reward = NoRecord /\ ~render)
    /\ (reports # {}) =>
           render = Geq(average_reward, hp.render_reward_threshold)
    /\ (pc = "step_response") => request.render = render

\* a step request sent with render set, after two reports
C15_Rendering ==
    /\ Cardinality(reports) >= 2
    /\ pc = "step_response"
    /\ request.render

\* C16: at every step the running total and the discounted return of
\* environment i are reset exactly when environment i is done; otherwise
\* they go on accumulating, whatever the other environments report.
C16_ResetIffDone ==
    [][(pc = "step_response") =>
          \A i \in Envs :
              IF response'.done[i]
              THEN running_rewards'[i] = 0 /\ env_returns'[i] = <<>>
              ELSE /\ running_rewards'[i]
                          = running_rewards[i] + response'.real_reward[i]
                   /\ Len(env_returns'[i]) = Len(env_returns[i]) + 1]_vars

\* one environment was reset while another went on accumulating
C16_OneReset ==
    /\ LastCall = "insert"
    /\ \E i, j \in Envs :
           /\ response.done[i]
           /\ ~response.done[j]
           /\ running_rewards[i] = 0
           /\ Len(env_returns[j]) >= 2

\* C17: the reward passed to insert is the normalisation of the reward field
\* of the step response, not of its real_reward field.
C17_RewardFromRaw ==
    (LastCall = "insert") =>
        \A i \in Envs : call.reward.data[<<i, 0>>].raw = response.reward[i]

\* C18: every mask in the buffer is 0 or 1 and, after collection step t,
\* masks[t+1][i] = 1 - done[i].
C18_MasksFollowDone ==
    /\ \A ix \in DOMAIN masks.data : masks.data[ix] \in {0, 1}
    /\ (LastCall = "insert") =>
           \A i \in Envs :
               masks.data[<<loop_step, i, 0>>]
                   = (IF response.done[i] THEN 0 ELSE 1)

\* C19: after compute_returns on a filled buffer, with or without GAE, a
\* process whose latest mask (masks[num_steps]) was inserted as 0 has
\* returns[num_steps - 1] equal to the reward inserted with it.
C19_MaskBlocksPropagation ==
    (call.op = "compute_returns" /\ call.inserts = num_steps) =>
        \A i \in Procs :
            (history.mask.data[<<i, 0>>] = 0) =>
                returns.data[<<num_steps - 1, i, 0>>]
                    = history.reward.data[<<i, 0>>]

\* C20: at most one request is outstanding, a response is awaited exactly
\* at the four reads of main, the response read is that of the latest
\* request, and no policy, buffer or update call is made while a request is
\* outstanding.
C20_Alternation ==
    /\ outstanding \in {0, 1}
    /\ (outstanding = 1) <=>
           (pc \in {"make_response", "info_response", "reset_response",
                    "step_response"})
    /\ (outstanding = 0) => response.name = request.name
    /\ (pc \in {"act", "bootstrap", "update", "after_update", "report"}) =>
           outstanding = 0

\* a step request awaiting its response in a later cycle
C20_StepPending == pc = "step_response" /\ outstanding = 1 /\ update >= 1

\* ------------------------------------------ compute_returns, call by call
\* The storage used as in SUBCASE("compute_returns()"): inserts of zero
\* observations, hidden states, actions and log-probabilities with the
\* value predictions and rewards {0, 1, ...} of the test's first insert, and
\* calls of compute_returns whose arguments and outcome the caller notes.

\* bootstrap values: the vectors {b, b + 1, ...} of the test and the all-ones
\* vector, so that two calls can agree on one process and differ on another
NextValues == Ramps \cup {Batch(<<1>>, 1)}

\* tau (the spec's lambda): the test's 0.6, and 1
Lambdas == Taus \cup {[num |-> 1, den |-> 1]}

\* the caller notes the call just made and keeps the latest two notes
note_returns(next_value, with_gae, gamma, tau) ==
    computed' = (IF Len(computed) < 2 THEN computed ELSE Tail(computed))
                    \o <<[next_value |-> next_value, use_gae |-> with_gae,
                          gamma |-> gamma, tau |-> tau,
                          inserts |-> history.inserts, rewards |-> rewards,
                          masks |-> masks,
                          value_predictions |-> value_predictions,
                          returns |-> returns']>>

InitReturns ==
    /\ \E n_steps \in 1..MaxSteps, num_processes \in 1..MaxProcesses :
           RolloutStorage(n_steps, num_processes, <<1>>,
                          [type |-> "Discrete", shape |-> <<3>>], MaxHidden)
    /\ computed = <<>>
    /\ NoMain

NextReturns ==
    \/ /\ LET value_and_reward ==
                   from_blob([i \in Procs |-> i], ctor.num_processes)
          IN
            insert(Batch(ctor.obs_shape, 0),
                   Batch(<<ctor.hidden_state_size>>, 0),
                   to(Batch(<<num_actions(ctor.action_space)>>, 0),
                      actions.dtype),
                   Batch(<<1>>, 0), value_and_reward, value_and_reward,
                   Batch(<<1>>, 1))
       /\ UNCHANGED <<main_vars, computed>>
    \/ /\ \E next_value \in NextValues, with_gae \in BOOLEAN,
             gamma \in Gammas, tau \in Lambdas :
               /\ compute_returns(next_value, with_gae, gamma, tau)
               /\ note_returns(next_value, with_gae, gamma, tau)
       /\ UNCHANGED main_vars

SpecReturns == InitReturns /\ [][NextReturns]_vars

\* two noted calls were made with the same use_gae, gamma and tau and agree
\* on process i: its bootstrap value and its rewards, masks and value
\* predictions at every time index
SameData(a, b, i) ==
    /\ a.use_gae = b.use_gae
    /\ a.gamma = b.gamma
    /\ a.tau = b.tau
    /\ a.next_value.data[<<i, 0>>] = b.next_value.data[<<i, 0>>]
    /\ \A t \in 0..(num_steps - 1) :
           a.rewards.data[<<t, i, 0>>] = b.rewards.data[<<t, i, 0>>]
    /\ \A t \in 0..num_steps :
           /\ a.masks.data[<<t, i, 0>>] = b.masks.data[<<t, i, 0>>]
           /\ a.value_predictions.data[<<t, i, 0>>]
                  = b.value_predictions.data[<<t, i, 0>>]

\* call a used GAE with lambda = 1, call b did not, both on a filled buffer
\* with the same bootstrap value, gamma, rewards and masks
TelescopingPair(a, b) ==
    /\ a.inserts = num_steps
    /\ b.inserts = num_steps
    /\ a.use_gae
    /\ a.tau.num = a.tau.den
    /\ ~b.use_gae
    /\ a.gamma = b.gamma
    /\ a.next_value = b.next_value
    /\ a.rewards = b.rewards
    /\ a.masks = b.masks

\* C21: compute_returns is independent across environments: two calls that
\* agree on environment i's rewards, masks, value predictions and bootstrap
\* value leave the same returns[0..num_steps][i], whatever the other
\* environments hold.
C21_IndependentAcrossEnvironments ==
    Len(computed) = 2 =>
        \A i \in Procs :
            SameData(computed[1], computed[2], i) =>
                \A t \in 0..num_steps :
                    computed[1].returns.data[<<t, i, 0>>]
                        = computed[2].returns.data[<<t, i, 0>>]

\* two calls that agree on one environment and differ on another
C21_OthersDiffer ==
    /\ Len(computed) = 2
    /\ \E i, j \in Procs :
           /\ i # j
           /\ SameData(computed[1], computed[2], i)
           /\ computed[1].next_value.data[<<j, 0>>]
                  # computed[2].next_value.data[<<j, 0>>]

\* C22: on a filled buffer, compute_returns with use_gae = true and
\* lambda = 1 leaves the same returns[0..num_steps] as compute_returns with
\* use_gae = false and the same bootstrap value and gamma, whatever the
\* stored value predictions.
C22_GaeLambdaOneIsDiscounted ==
    Len(computed) = 2 =>
        \A a, b \in {computed[1], computed[2]} :
            TelescopingPair(a, b) => a.returns = b.returns

\* a GAE call with lambda = 1 and a call without GAE on the same filled
\* buffer with a nonzero bootstrap value
C22_BothBranches ==
    /\ Len(computed) = 2
    /\ \E a, b \in {computed[1], computed[2]} :
           /\ TelescopingPair(a, b)
           /\ \E i \in Procs : a.next_value.data[<<i, 0>>] # 0

====
